---- MODULE Spec2Model ----
(***************************************************************************)
(* Model of pydoop's setup.py: the staleness check, the generated          *)
(* artifacts, the extension registry, the JVM-component build and the      *)
(* build / clean commands.                                                 *)
(*                                                                         *)
(* Strings are sequences of tokens: "%s" formatting and os.path.join are   *)
(* concatenation (\o).  A path is the sequence of its components.          *)
(***************************************************************************)
EXTENDS Integers, Sequences, FiniteSets, TLC

(* ------------------------------ bounds -------------------------------- *)
MaxMajor == 3
MaxMinor == 3
MaxPatch == 1
MaxClock == 1
MaxRuns == 2
MaxMtime == 2

(* --------------------------- string helpers --------------------------- *)
Digits == <<"0", "1", "2", "3", "4", "5", "6", "7", "8", "9">>

Digit(n) == Digits[n + 1]

\* str(HADOOP_VERSION_INFO): the original string form of the version
VersionStr(v) == <<Digit(v[1]), ".", Digit(v[2]), ".", Digit(v[3])>>

Last(s) == s[Len(s)]

RECURSIVE Flatten(_)
Flatten(ss) == IF ss = <<>> THEN <<>> ELSE Head(ss) \o Flatten(Tail(ss))

IsPrefix(a, b) == Len(a) <= Len(b) /\ SubSeq(b, 1, Len(a)) = a

\* Python's ordering of tuples: lexicographic, a proper prefix is smaller
RECURSIVE TupleGE(_, _)
TupleGE(a, b) ==
    IF b = <<>> THEN TRUE
    ELSE IF a = <<>> THEN FALSE
    ELSE IF Head(a) # Head(b) THEN Head(a) > Head(b)
    ELSE TupleGE(Tail(a), Tail(b))

(* ------------------------------- paths -------------------------------- *)
MARKER == <<"DEFAULT_HADOOP_HOME">>
CONFIG_PY == <<"pydoop", "config.py">>
VERSION_PY == <<"pydoop", "version.py">>
VERSION == <<"VERSION">>
BUILD == <<"build">>
build_temp == <<"build", "temp">>
build_lib == <<"build", "lib">>

\* generate_hdfs_config: os.path.join('src', 'libhdfs', str(v), "config.h")
config_fn(v) == <<"src", "libhdfs">> \o VersionStr(v) \o <<"config.h">>

(* ------------------------ the external platform ----------------------- *)
Versions == {<<a, b, c>> : a \in 0..MaxMajor, b \in 0..MaxMinor, c \in 0..MaxPatch}

\* the two platform versions of the repeated-build specification
RepeatVersions == {<<1, 2, 1>>, <<2, 6, 0>>}

\* HadoopVersion.main: the leading two components of the version
main(v) == SubSeq(v, 1, 2)

\* pydoop.hdfs.core.impl
NATIVE == "native"
SUPPORTED == {"native", "jpype-bridged"}
DEFAULT == NATIVE

\* pydoop.jar_name(hadoop_vinfo)
jar_name(v) == <<"pydoop-">> \o VersionStr(v) \o <<".jar">>

\* pydoop.hadoop_home(fallback=None): a path, or None
Homes == {"/opt/hadoop-1.0.2", "None"}
Impls == SUPPORTED \cup {"bogus"}
Revs == {"rev1", "rev2"}

(* ----------------------------- file system ---------------------------- *)
File(data, t) == [kind |-> "file", data |-> data, mtime |-> t]
Dir == [kind |-> "dir", data |-> <<>>, mtime |-> 0]

\* a symbolic link; data is the path it points to
Link(target) == [kind |-> "link", data |-> target, mtime |-> 0]

exists(f, p) == p \in DOMAIN f

\* os.path.isdir follows symbolic links
isdir(f, p) ==
    /\ p \in DOMAIN f
    /\ \/ f[p].kind = "dir"
       \/ /\ f[p].kind = "link"
          /\ f[p].data \in DOMAIN f
          /\ f[f[p].data].kind = "dir"
islink(f, p) == p \in DOMAIN f /\ f[p].kind = "link"

\* f with path p bound to entry e
Put(f, p, e) == [q \in DOMAIN f \cup {p} |-> IF q = p THEN e ELSE f[q]]

\* f without the paths in ps
Drop(f, ps) == [q \in DOMAIN f \ ps |-> f[q]]

rmtree_parent(f, p) == Drop(f, {q \in DOMAIN f : IsPrefix(<<p[1]>>, q)})

\* shutil.rmtree(path): the directory and everything below it
rmtree(f, p) == Drop(f, {q \in DOMAIN f : IsPrefix(p, q)})

(* ------------------------------ UTILITIES ----------------------------- *)
\* rm_rf, the body of the try block: the file system after it and whether
\* it raised OSError (the path is missing, or the removal is refused: fail)
remove(f, path, fail) ==
    IF path \in fail \/ ~exists(f, path) THEN [f |-> f, oserror |-> TRUE]
    ELSE IF isdir(f, path) /\ ~islink(f, path)
    THEN [f |-> rmtree(f, path), oserror |-> FALSE]
    ELSE [f |-> Drop(f, {path}), oserror |-> FALSE]

rm_rf_uncaught(f, path, dry, fail) ==
    IF dry THEN [f |-> f, log |-> <<path>>, raised |-> FALSE]
    ELSE [f |-> remove(f, path, fail).f, log |-> <<path>>,
          raised |-> remove(f, path, fail).oserror]

rm_rf_ignores_dry_run(f, path, dry, fail) ==
    [f |-> remove(f, path, fail).f, log |-> <<path>>, raised |-> FALSE]

rm_rf_follows_links(f, path, dry, fail) ==
    IF dry THEN [f |-> f, log |-> <<path>>, raised |-> FALSE]
    ELSE IF islink(f, path) /\ isdir(f, path)
    THEN [f |-> rmtree(Drop(f, {path}), f[path].data), log |-> <<path>>,
          raised |-> FALSE]
    ELSE [f |-> remove(f, path, fail).f, log |-> <<path>>, raised |-> FALSE]

\* rm_rf(path, dry_run): the file system after the call, the "removing"
\* log entry, and whether an exception left it (OSError is swallowed)
rm_rf(f, path, dry, fail) ==
    IF dry THEN [f |-> f, log |-> <<path>>, raised |-> FALSE]
    ELSE [f |-> remove(f, path, fail).f, log |-> <<path>>, raised |-> FALSE]

\* Clean.run: for p in garbage_list: rm_rf(p, self.dry_run)
RECURSIVE rm_all(_, _, _, _)
rm_all(f, paths, dry, fail) ==
    IF paths = <<>> THEN [f |-> f, log |-> <<>>, raised |-> FALSE]
    ELSE LET r == rm_rf(f, Head(paths), dry, fail)
         IN IF r.raised THEN r
            ELSE LET rest == rm_all(r.f, Tail(paths), dry, fail)
                 IN [f |-> rest.f, log |-> r.log \o rest.log,
                     raised |-> rest.raised]

Max(S) == CHOOSE x \in S : \A y \in S : y <= x

must_generate_ge(f, target, prerequisites) ==
    IF \E i \in 1..Len(prerequisites) : ~exists(f, prerequisites[i]) THEN "True"
    ELSE IF prerequisites = <<>> THEN "ValueError"
    ELSE IF ~exists(f, target) THEN "True"
    ELSE IF Max({f[prerequisites[i]].mtime : i \in 1..Len(prerequisites)})
            >= f[target].mtime THEN "True"
    ELSE "False"

\* must_generate(target, prerequisites): "True", "False", or the ValueError
\* that max() raises on an empty sequence (only OSError is caught)
must_generate(f, target, prerequisites) ==
    IF \E i \in 1..Len(prerequisites) : ~exists(f, prerequisites[i]) THEN "True"
    ELSE IF prerequisites = <<>> THEN "ValueError"
    ELSE IF ~exists(f, target) THEN "True"
    ELSE IF Max({f[prerequisites[i]].mtime : i \in 1..Len(prerequisites)})
            > f[target].mtime THEN "True"
    ELSE "False"

(* ------------------------------ exceptions ---------------------------- *)
Exc(type, msg) == [type |-> type, msg |-> msg]
NoExc == Exc("None", <<>>)

(* -------------------------- generated artifacts ----------------------- *)
write_marker_always(f, home, t) == Put(f, MARKER, File(<<home, "\n">>, t))

\* write_config, the marker: written only when it does not exist
write_marker(f, home, t) ==
    IF ~exists(f, MARKER) THEN Put(f, MARKER, File(<<home, "\n">>, t)) ELSE f

\* write_config, the text of pydoop/config.py
config_text(home, impl) ==
    <<"# GENERATED BY setup.py\n",
      "DEFAULT_HADOOP_HOME='", home, "'\n",
      "HDFS_CORE_IMPL='", impl, "'\n">>

\* have_better_tls
have_better_tls == FALSE

\* generate_hdfs_config, the text of config.h
config_h_text ==
    <<"#ifndef CONFIG_H\n#define CONFIG_H\n">>
    \o (IF have_better_tls THEN <<"#define HAVE_BETTER_TLS\n">> ELSE <<>>)
    \o <<"#endif\n">>

\* write_version, the text of pydoop/version.py; commit = <<>> is None
version_text(version, commit) ==
    <<"# GENERATED BY setup.py\n", "version='">> \o version
    \o (IF commit = <<>> THEN <<>> ELSE <<" [">> \o commit \o <<"]">>)
    \o <<"'\n">>

(* --------------------------- extension specs -------------------------- *)
Extension(name, sources, macros, args) ==
    [name |-> name, sources |-> sources, define_macros |-> macros,
     extra_compile_args |-> args]

Macro(name, value) == [name |-> name, value |-> value]

libhdfs_files_lt(v) ==
    IF v[1] < 1 THEN <<"hdfs.c", "hdfsJniHelper.c">>
    ELSE <<"hdfs.c", "jni_helper.c", "exception.c", "native_mini_dfs.c">>

\* build_hdfscore_native_impl: the version-dependent libhdfs file names
libhdfs_files(v) ==
    IF v[1] <= 1 THEN <<"hdfs.c", "hdfsJniHelper.c">>
    ELSE <<"hdfs.c", "jni_helper.c", "exception.c", "native_mini_dfs.c">>

\* build_hdfscore_native_impl: hdfs_ext_sources
hdfs_ext_sources(v) ==
    [i \in 1..Len(libhdfs_files(v)) |->
        <<"src", "libhdfs">> \o VersionStr(v) \o <<libhdfs_files(v)[i]>>]
    \o <<<<"src", "native_core_hdfs", "hdfs_module.cc">>,
         <<"src", "native_core_hdfs", "hdfs_file.cc">>,
         <<"src", "native_core_hdfs", "hdfs_fs.cc">>>>

\* build_hdfscore_native_impl: libhdfs_macros
libhdfs_macros(v) ==
    <<Macro(IF v[1] <= 1 THEN "HADOOP_LIBHDFS_V1" ELSE "HADOOP_LIBHDFS_V2", 1)>>

\* build_hdfscore_native_impl: the Extension appended to the registry
native_hdfs_core(v) ==
    Extension("native_core_hdfs", hdfs_ext_sources(v), libhdfs_macros(v),
              <<"-Xlinker", "-rpath", "JVM_LIB_PATH">>)

\* build_sercore_extension: the Extension appended to the registry
binary_encoder ==
    Extension("pydoop_sercore",
              <<<<"src", "serialize", "protocol_codec.cc">>,
                <<"src", "serialize", "SerialUtils.cc">>,
                <<"src", "serialize", "StringUtils.cc">>>>,
              <<>>, <<"-O3">>)

(* ----------------------------- BUILD ENGINE --------------------------- *)
PIPES_GLOB == <<"src", "it", "crs4", "pydoop", "pipes", "*.java">>
MAPREDUCE_PIPES_GLOB ==
    <<"src", "it", "crs4", "pydoop", "mapreduce", "pipes", "*.java">>

\* pydoop.hadoop_classpath(): empty when no Hadoop home was found
hadoop_classpath(home) == IF home = "None" THEN <<>> ELSE <<home, "/*.jar">>

java_files_full(v) ==
    <<<<"src", "it", "crs4", "pydoop", "NoSeparatorTextOutputFormat.java">>,
      PIPES_GLOB>>
    \o (IF TupleGE(v, <<2, 2, 0>>) THEN <<MAPREDUCE_PIPES_GLOB>> ELSE <<>>)

\* JavaLib.__init__: java_files
java_files(v) ==
    <<<<"src", "it", "crs4", "pydoop", "NoSeparatorTextOutputFormat.java">>,
      PIPES_GLOB>>
    \o (IF TupleGE(main(v), <<2, 2, 0>>) THEN <<MAPREDUCE_PIPES_GLOB>> ELSE <<>>)

\* JavaLib.__init__
JavaLib(v, home) ==
    [hadoop_vinfo |-> v, jar_name |-> jar_name(v),
     classpath |-> hadoop_classpath(home), java_files |-> java_files(v)]

\* __build_java_lib: class_dir
class_dir(jlib) == build_temp \o <<"pipes-">> \o VersionStr(jlib.hadoop_vinfo)

\* __build_java_lib: package_path
package_path(jlib) == build_lib \o <<"pydoop">> \o jlib.jar_name

\* __build_java_lib: compile_cmd
compile_cmd(jlib) ==
    <<"javac">>
    \o (IF jlib.classpath # <<>> THEN <<" -classpath ">> \o jlib.classpath
        ELSE <<>>)
    \o <<" -d '">> \o class_dir(jlib) \o <<"'">>
    \o Flatten([i \in 1..Len(jlib.java_files) |-> <<" ">> \o jlib.java_files[i]])

\* __build_java_lib: package_cmd
package_cmd(jlib) ==
    <<"jar -cf ">> \o package_path(jlib) \o <<" -C ">> \o class_dir(jlib)
    \o <<" ./it">>

setup_error_bare(prefix, command) == Exc("DistutilsSetupError", <<prefix>>)

\* __build_java_lib: the error raised on a non-zero exit status
setup_error(prefix, command) ==
    Exc("DistutilsSetupError", <<prefix>> \o command)

option_supported_any(impl) == TRUE

\* finalize_options: the validation of hdfs_core_impl
option_supported(impl) == impl \in SUPPORTED

(* -------------------------------- state ------------------------------- *)
VARIABLES
    HADOOP_HOME,          \* module constant: the detected Hadoop home
    HADOOP_VERSION_INFO,  \* module constant: the detected Hadoop version
    EXTENSION_MODULES,    \* module-level registry of Extension objects
    git_head,             \* environment: the revision git rev-parse reports
    io_fail,              \* environment: the directory that cannot be written
    fs,                   \* the file system: path -> entry
    clock,                \* the file system's time
    cmd,                  \* the distutils command being run
    hdfs_core_impl,       \* BuildPydoop.hdfs_core_impl
    dry_run,              \* Clean.dry_run
    pc,                   \* position inside the command
    exc,                  \* the exception propagating, or raised to the caller
    orig_exc,             \* history: the exception a stage raised
    failed_stage,         \* history: the stage that raised
    spawned,              \* history: external processes started by this run
    written,              \* history: paths written by this run
    cleaned,              \* history: clean_up was called by this run
    prev_gen,             \* history: artifacts after the previous generation
    runs,                 \* number of commands started
    mg_stat, mg_target, mg_prereqs, mg_ret,  \* must_generate under test
    rm_fail,              \* environment: paths whose removal the OS refuses
    log                   \* history: the "removing" entries of Clean.run

envv == <<HADOOP_HOME, HADOOP_VERSION_INFO, git_head, io_fail>>
cmdv == <<cmd, hdfs_core_impl, dry_run>>
histv == <<orig_exc, failed_stage, spawned, written, cleaned>>
mgv == <<mg_stat, mg_target, mg_prereqs, mg_ret>>
rmv == <<rm_fail, log>>
vars == <<envv, EXTENSION_MODULES, fs, clock, cmdv, pc, exc, histv, prev_gen,
          runs, mgv, rmv>>

IoFaults == {"none", "pydoop", "libhdfs", "build_temp"}
VERSION_TEXT == <<"1.0.0">>

\* the generated artifacts' contents
Artifacts(f, v) ==
    [p \in {MARKER, CONFIG_PY, VERSION_PY, config_fn(v)} |->
        IF exists(f, p) THEN f[p].data ELSE <<"<absent>">>]

\* a distutils command object is created and its options are set
NewCommand ==
    /\ cmd' \in {"build", "clean"}
    /\ hdfs_core_impl' \in Impls
    /\ dry_run' \in BOOLEAN
    /\ (cmd' = "clean" => hdfs_core_impl' = DEFAULT)
    /\ (cmd' = "build" => dry_run' = FALSE)
    /\ pc' = "start"
    /\ exc' = NoExc /\ orig_exc' = NoExc /\ failed_stage' = "none"
    /\ spawned' = <<>> /\ written' = {} /\ cleaned' = FALSE
    /\ log' = <<>>

MainInit(versions) ==
    /\ HADOOP_HOME \in Homes
    /\ HADOOP_VERSION_INFO \in versions
    /\ EXTENSION_MODULES = <<>>
    /\ git_head = "rev1"
    /\ io_fail \in IoFaults
    /\ fs = (VERSION :> File(VERSION_TEXT, 0))
    /\ clock = 0
    /\ cmd = "build"
    /\ hdfs_core_impl \in Impls
    /\ dry_run = FALSE
    /\ pc = "start"
    /\ exc = NoExc /\ orig_exc = NoExc /\ failed_stage = "none"
    /\ spawned = <<>> /\ written = {} /\ cleaned = FALSE
    /\ prev_gen = {}
    /\ runs = 1
    /\ rm_fail = {}
    /\ log = <<>>

MgIdle ==
    /\ mg_stat = <<>> /\ mg_target = <<>> /\ mg_prereqs = <<>>
    /\ mg_ret = "idle"

Init == MainInit(RepeatVersions) /\ MgIdle

\* an exception leaves run() from outside the try block
Raise(stage, e) ==
    /\ pc' = "raised" /\ exc' = e /\ orig_exc' = e /\ failed_stage' = stage

on_exception_in_try_skip == "raised"

on_exception_in_try_continue == "package"

on_exception_in_try_nosleep == "clean_up"

\* run: where control goes when the body of the try block raises
on_exception_in_try == "sleep"

\* an exception is raised inside the try block
RaiseInTry(stage, e) ==
    /\ pc' = on_exception_in_try /\ exc' = e /\ orig_exc' = e
    /\ failed_stage' = stage

(* ------------------------------ BuildPydoop --------------------------- *)
finalize_options ==
    /\ cmd = "build" /\ pc = "start"
    /\ IF ~option_supported(hdfs_core_impl)
       THEN Raise("finalize_options",
                  Exc("DistutilsOptionError",
                      <<"'", hdfs_core_impl, "'", " not supported">>))
       ELSE pc' = "write_config" /\ UNCHANGED <<exc, orig_exc, failed_stage>>
    /\ UNCHANGED <<envv, EXTENSION_MODULES, fs, clock, cmdv, spawned, written,
                   cleaned, prev_gen, runs, mgv, rmv>>

\* run: write_config(hdfs_core_impl=self.hdfs_core_impl)
write_config ==
    /\ cmd = "build" /\ pc = "write_config"
    /\ LET f1 == write_marker(fs, HADOOP_HOME, clock)
           w1 == IF f1 # fs THEN {MARKER} ELSE {}
       IN IF io_fail = "pydoop"
          THEN /\ fs' = f1
               /\ written' = written \cup w1
               /\ Raise("write_config", Exc("IOError", CONFIG_PY))
               /\ prev_gen' = {}
          ELSE /\ fs' = Put(f1, CONFIG_PY,
                            File(config_text(HADOOP_HOME, hdfs_core_impl), clock))
               /\ written' = written \cup w1 \cup {CONFIG_PY}
               /\ pc' = "write_version"
               /\ UNCHANGED <<exc, orig_exc, failed_stage, prev_gen>>
    /\ UNCHANGED <<envv, EXTENSION_MODULES, clock, cmdv, spawned, cleaned,
                   runs, mgv, rmv>>

GitOutcomes == {"ok", "nonzero", "nostart"}
GIT_CMD == <<"git", " rev-parse", " HEAD">>

\* get_version_string(filename)
get_version_string(f, filename) ==
    IF exists(f, filename) THEN f[filename].data ELSE <<>>

\* run: write_version()
write_version ==
    /\ cmd = "build" /\ pc = "write_version"
    /\ IF must_generate(fs, VERSION_PY, <<VERSION>>) = "True"
       THEN IF ~exists(fs, VERSION)
            THEN /\ Raise("write_version",
                          Exc("DistutilsSetupError",
                              <<"failed to read version info">>))
                 /\ prev_gen' = {}
                 /\ UNCHANGED <<fs, spawned, written>>
            ELSE \E g \in GitOutcomes :
                 IF g = "nostart"
                 THEN /\ Raise("write_version", Exc("OSError", GIT_CMD))
                      /\ prev_gen' = {}
                      /\ UNCHANGED <<fs, spawned, written>>
                 ELSE /\ spawned' = Append(spawned,
                              [prog |-> "git", cmd |-> GIT_CMD,
                               ret |-> IF g = "ok" THEN 0 ELSE 1])
                      /\ IF io_fail = "pydoop"
                         THEN /\ Raise("write_version",
                                       Exc("IOError", VERSION_PY))
                              /\ prev_gen' = {}
                              /\ UNCHANGED <<fs, written>>
                         ELSE /\ fs' = Put(fs, VERSION_PY,
                                    File(version_text(
                                           get_version_string(fs, VERSION),
                                           IF g = "ok" THEN <<git_head>>
                                           ELSE <<>>), clock))
                              /\ written' = written \cup {VERSION_PY}
                              /\ pc' = "build_sercore_extension"
                              /\ UNCHANGED <<exc, orig_exc, failed_stage,
                                             prev_gen>>
       ELSE /\ pc' = "build_sercore_extension"
            /\ UNCHANGED <<fs, spawned, written, exc, orig_exc, failed_stage,
                           prev_gen>>
    /\ UNCHANGED <<envv, EXTENSION_MODULES, clock, cmdv, cleaned, runs, mgv, rmv>>

build_sercore_extension_then_native ==
    /\ cmd = "build" /\ pc = "build_sercore_extension"
    /\ EXTENSION_MODULES' = Append(EXTENSION_MODULES, binary_encoder)
    /\ pc' = "build_hdfscore_native_impl"
    /\ UNCHANGED <<envv, fs, clock, cmdv, exc, histv, prev_gen, runs, mgv, rmv>>

\* run: build_sercore_extension()
build_sercore_extension ==
    /\ cmd = "build" /\ pc = "build_sercore_extension"
    /\ EXTENSION_MODULES' = Append(EXTENSION_MODULES, binary_encoder)
    /\ pc' = IF hdfs_core_impl = NATIVE THEN "build_hdfscore_native_impl"
             ELSE "build_run"
    /\ UNCHANGED <<envv, fs, clock, cmdv, exc, histv, prev_gen, runs, mgv, rmv>>

\* run: build_hdfscore_native_impl(), generate_hdfs_config() included
build_hdfscore_native_impl ==
    /\ cmd = "build" /\ pc = "build_hdfscore_native_impl"
    /\ IF io_fail = "libhdfs"
       THEN /\ Raise("build_hdfscore_native_impl",
                     Exc("IOError", config_fn(HADOOP_VERSION_INFO)))
            /\ prev_gen' = {}
            /\ UNCHANGED <<fs, written, EXTENSION_MODULES>>
       ELSE /\ fs' = Put(fs, config_fn(HADOOP_VERSION_INFO),
                         File(config_h_text, clock))
            /\ written' = written \cup {config_fn(HADOOP_VERSION_INFO)}
            /\ EXTENSION_MODULES' =
                   Append(EXTENSION_MODULES,
                          native_hdfs_core(HADOOP_VERSION_INFO))
            /\ pc' = "build_run"
            /\ UNCHANGED <<exc, orig_exc, failed_stage, prev_gen>>
    /\ UNCHANGED <<envv, clock, cmdv, spawned, cleaned, runs, mgv, rmv>>

BaseOutcomes == {"ok", "error"}

\* run: build.run(self), the base build step of distutils
build_run ==
    /\ cmd = "build" /\ pc = "build_run"
    /\ prev_gen' = {[home |-> HADOOP_HOME, impl |-> hdfs_core_impl,
                     art |-> Artifacts(fs, HADOOP_VERSION_INFO)]}
    /\ \E r \in BaseOutcomes :
          IF r = "error"
          THEN /\ Raise("build_run",
                        Exc("DistutilsError", <<"base build failed">>))
               /\ UNCHANGED fs
          ELSE /\ fs' = Put(Put(Put(fs, BUILD, Dir), build_lib, Dir),
                            build_lib \o <<"pydoop">>, Dir)
               /\ pc' = "create_tmp"
               /\ UNCHANGED <<exc, orig_exc, failed_stage>>
    /\ UNCHANGED <<envv, EXTENSION_MODULES, clock, cmdv, spawned, written,
                   cleaned, runs, mgv, rmv>>

\* create_tmp
create_tmp ==
    /\ cmd = "build" /\ pc = "create_tmp"
    /\ IF ~exists(fs, build_temp) /\ io_fail = "build_temp"
       THEN /\ RaiseInTry("create_tmp", Exc("OSError", <<"mkdir ">> \o build_temp))
            /\ UNCHANGED fs
       ELSE /\ fs' = LET f1 == IF ~exists(fs, build_temp)
                               THEN Put(fs, build_temp, Dir) ELSE fs
                     IN IF ~exists(f1, build_lib)
                        THEN Put(f1, build_lib, Dir) ELSE f1
            /\ pc' = "build_java"
            /\ UNCHANGED <<exc, orig_exc, failed_stage>>
    /\ UNCHANGED <<envv, EXTENSION_MODULES, clock, cmdv, spawned, written,
                   cleaned, prev_gen, runs, mgv, rmv>>

ExitStatus == {0, 1}

\* build_java, __build_java_lib up to the compiler's exit
build_java ==
    /\ cmd = "build" /\ pc = "build_java"
    /\ LET jlib == JavaLib(HADOOP_VERSION_INFO, HADOOP_HOME)
           f1 == IF ~exists(fs, class_dir(jlib))
                 THEN Put(fs, class_dir(jlib), Dir) ELSE fs
       IN \E ret \in ExitStatus :
          /\ spawned' = Append(spawned, [prog |-> "javac",
                                         cmd |-> compile_cmd(jlib),
                                         ret |-> ret])
          /\ IF ret # 0
             THEN /\ fs' = f1
                  /\ RaiseInTry("build_java",
                        setup_error(
                          "Error compiling java component.  Command: ",
                          compile_cmd(jlib)))
             ELSE /\ fs' = Put(f1, class_dir(jlib) \o <<"it">>, Dir)
                  /\ pc' = "package"
                  /\ UNCHANGED <<exc, orig_exc, failed_stage>>
    /\ UNCHANGED <<envv, EXTENSION_MODULES, clock, cmdv, written, cleaned,
                   prev_gen, runs, mgv, rmv>>

\* __build_java_lib from "Making Jar" on
package ==
    /\ cmd = "build" /\ pc = "package"
    /\ LET jlib == JavaLib(HADOOP_VERSION_INFO, HADOOP_HOME)
       IN \E ret \in ExitStatus :
          /\ spawned' = Append(spawned, [prog |-> "jar",
                                         cmd |-> package_cmd(jlib),
                                         ret |-> ret])
          /\ IF ret # 0
             THEN /\ RaiseInTry("build_java",
                        setup_error(
                          "Error packaging java component.  Command: ",
                          package_cmd(jlib)))
                  /\ UNCHANGED fs
             ELSE /\ fs' = Put(fs, package_path(jlib),
                               File(<<"jar">>, clock))
                  /\ pc' = "sleep"
                  /\ UNCHANGED <<exc, orig_exc, failed_stage>>
    /\ UNCHANGED <<envv, EXTENSION_MODULES, clock, cmdv, written, cleaned,
                   prev_gen, runs, mgv, rmv>>

\* run, the finally block: time.sleep(0.5)
sleep ==
    /\ cmd = "build" /\ pc = "sleep"
    /\ pc' = "clean_up"
    /\ UNCHANGED <<envv, EXTENSION_MODULES, fs, clock, cmdv, exc, histv,
                   prev_gen, runs, mgv, rmv>>

\* run, the finally block: self.clean_up(), then the end of run
clean_up ==
    /\ cmd = "build" /\ pc = "clean_up"
    /\ cleaned' = TRUE
    /\ IF isdir(fs, build_temp)
       THEN /\ fs' = rmtree(fs, build_temp)
            /\ pc' = IF exc = NoExc THEN "done" ELSE "raised"
            /\ UNCHANGED exc
       ELSE /\ exc' = Exc("OSError", <<"rmtree ">> \o build_temp)
            /\ pc' = "raised"
            /\ UNCHANGED fs
    /\ UNCHANGED <<envv, EXTENSION_MODULES, clock, cmdv, orig_exc,
                   failed_stage, spawned, written, prev_gen, runs, mgv, rmv>>

(* --------------------------------- Clean ------------------------------ *)
PatchedNames == {"libhdfs.patched"}

SetToSeq(S) ==
    CHOOSE s \in [1..Cardinality(S) -> S] : \A x \in S : \E i \in DOMAIN s : s[i] = x

\* Clean.run: garbage_list
garbage_list(f) ==
    <<MARKER, CONFIG_PY, VERSION_PY>>
    \o (IF exists(f, BUILD) THEN <<BUILD>> ELSE <<>>)
    \o SetToSeq({p \in DOMAIN f :
                   Len(p) = 2 /\ p[1] = "src" /\ p[2] \in PatchedNames})
    \o SetToSeq({p \in DOMAIN f :
                   Len(p) = 2 /\ p[1] \in {"src", "patches"} /\ islink(f, p)})

\* Clean.run
Clean_run ==
    /\ cmd = "clean" /\ pc = "start"
    /\ LET f1 == IF dry_run \/ ~exists(fs, build_temp) THEN fs
                 ELSE rmtree(fs, build_temp)
           r == rm_all(f1, garbage_list(f1), dry_run, rm_fail)
       IN /\ fs' = r.f
          /\ log' = r.log
          /\ IF r.raised
             THEN Raise("Clean_run", Exc("OSError", r.log[Len(r.log)]))
             ELSE pc' = "done" /\ UNCHANGED <<exc, orig_exc, failed_stage>>
    /\ prev_gen' = {}
    /\ UNCHANGED <<envv, EXTENSION_MODULES, clock, cmdv, spawned, written,
                   cleaned, runs, mgv, rm_fail>>

(* ------------------------------ environment --------------------------- *)
Idle == pc \in {"done", "raised"}

\* setup.py is started again: the module constants are detected anew
NewProcess ==
    /\ Idle /\ runs < MaxRuns
    /\ runs' = runs + 1
    /\ HADOOP_HOME' \in Homes
    /\ EXTENSION_MODULES' = <<>>
    /\ NewCommand
    /\ UNCHANGED <<HADOOP_VERSION_INFO, git_head, io_fail, fs, clock,
                   prev_gen, mgv, rm_fail>>

\* the build command is run again in the same process
Rerun ==
    /\ Idle /\ runs < MaxRuns /\ cmd = "build"
    /\ runs' = runs + 1
    /\ pc' = "start"
    /\ exc' = NoExc /\ orig_exc' = NoExc /\ failed_stage' = "none"
    /\ spawned' = <<>> /\ written' = {} /\ cleaned' = FALSE
    /\ UNCHANGED <<envv, EXTENSION_MODULES, fs, clock, cmdv, prev_gen, mgv, rmv>>

Tick ==
    /\ Idle /\ clock < MaxClock
    /\ clock' = clock + 1
    /\ UNCHANGED <<envv, EXTENSION_MODULES, fs, cmdv, pc, exc, histv,
                   prev_gen, runs, mgv, rmv>>

\* the version-declaration file is edited
TouchVersion ==
    /\ Idle /\ fs[VERSION].mtime # clock
    /\ fs' = Put(fs, VERSION, File(VERSION_TEXT, clock))
    /\ prev_gen' = {}
    /\ UNCHANGED <<envv, EXTENSION_MODULES, clock, cmdv, pc, exc, histv,
                   runs, mgv, rmv>>

\* a commit is made: git rev-parse HEAD reports another revision
GitCommit ==
    /\ Idle
    /\ git_head' \in Revs \ {git_head}
    /\ UNCHANGED <<HADOOP_HOME, HADOOP_VERSION_INFO, io_fail,
                   EXTENSION_MODULES, fs, clock, cmdv, pc, exc, histv,
                   prev_gen, runs, mgv, rmv>>

Next ==
    \/ finalize_options
    \/ write_config
    \/ write_version
    \/ build_sercore_extension
    \/ build_hdfscore_native_impl
    \/ build_run
    \/ create_tmp
    \/ build_java
    \/ package
    \/ sleep
    \/ clean_up
    \/ Clean_run
    \/ NewProcess
    \/ Rerun
    \/ Tick
    \/ TouchVersion
    \/ GitCommit

Spec == Init /\ [][Next]_vars

(* one build command on a fresh tree, for every platform version *)
RunInit == MainInit(Versions) /\ MgIdle

RunNext ==
    \/ finalize_options
    \/ write_config
    \/ write_version
    \/ build_sercore_extension
    \/ build_hdfscore_native_impl
    \/ build_run
    \/ create_tmp
    \/ build_java
    \/ package
    \/ sleep
    \/ clean_up

SpecRun == RunInit /\ [][RunNext]_vars

(* must_generate applied to every small target / prerequisite layout *)
MgPaths == {<<"target">>, <<"prereq1">>, <<"prereq2">>}

MgPrereqLists ==
    {<<>>, <<<<"prereq1">>>>, <<<<"prereq2">>>>,
     <<<<"prereq1">>, <<"prereq2">>>>, <<<<"prereq2">>, <<"prereq1">>>>}

StaleInit ==
    /\ MainInit({<<1, 2, 1>>})
    /\ HADOOP_HOME = "None" /\ io_fail = "none" /\ hdfs_core_impl = DEFAULT
    /\ \E D \in SUBSET MgPaths :
          mg_stat \in [D -> {File(<<>>, t) : t \in 0..MaxMtime}]
    /\ mg_target = <<"target">>
    /\ mg_prereqs \in MgPrereqLists
    /\ mg_ret = "idle"

CallMustGenerate ==
    /\ mg_ret = "idle"
    /\ mg_ret' = must_generate(mg_stat, mg_target, mg_prereqs)
    /\ UNCHANGED <<envv, EXTENSION_MODULES, fs, clock, cmdv, pc, exc, histv,
                   prev_gen, runs, mg_stat, mg_target, mg_prereqs, rmv>>

SpecStale == StaleInit /\ [][CallMustGenerate]_vars

(* Clean.run on every small tree of files, directories and links *)
EXT_FILE == <<"ext", "file">>
EXT_DIR == <<"ext", "dir">>
EXT_GONE == <<"ext", "gone">>
SRC_PATCHED == <<"src", "libhdfs.patched">>
SRC_LINK == <<"src", "hadoop">>
PATCH_LINK == <<"patches", "current">>

NoFiles == [p \in {} |-> Dir]

Merge(f, g) ==
    [p \in DOMAIN f \cup DOMAIN g |-> IF p \in DOMAIN g THEN g[p] ELSE f[p]]

CleanBase ==
    [p \in {VERSION, CONFIG_PY, EXT_FILE, EXT_DIR, EXT_DIR \o <<"x.c">>} |->
        IF p = EXT_DIR THEN Dir ELSE File(<<"text">>, 0)]

MarkerTrees == {NoFiles, [p \in {MARKER} |-> File(<<"None", "\n">>, 0)]}

BuildTrees ==
    {NoFiles,
     [p \in {BUILD, build_lib, build_lib \o <<"pydoop">>, build_temp} |-> Dir]}

PatchedTrees ==
    {NoFiles, [p \in {SRC_PATCHED} |-> File(<<"text">>, 0)],
     [p \in {SRC_PATCHED} |-> Link(EXT_DIR)]}

SrcLinkTrees ==
    {NoFiles} \cup
    {[p \in {SRC_LINK} |-> Link(t)] : t \in {EXT_FILE, EXT_DIR, EXT_GONE}}

PatchLinkTrees == {NoFiles, [p \in {PATCH_LINK} |-> Link(EXT_DIR)]}

CleanTrees ==
    {Merge(Merge(Merge(Merge(Merge(CleanBase, a), b), c), d), e) :
        a \in MarkerTrees, b \in BuildTrees, c \in PatchedTrees,
        d \in SrcLinkTrees, e \in PatchLinkTrees}

GarbageCandidates ==
    {MARKER, CONFIG_PY, VERSION_PY, BUILD, SRC_PATCHED, SRC_LINK, PATCH_LINK}

CleanInit ==
    /\ HADOOP_HOME = "None"
    /\ HADOOP_VERSION_INFO = <<1, 2, 1>>
    /\ EXTENSION_MODULES = <<>>
    /\ git_head = "rev1"
    /\ io_fail = "none"
    /\ fs \in CleanTrees
    /\ clock = 0
    /\ cmd = "clean"
    /\ hdfs_core_impl = DEFAULT
    /\ dry_run \in BOOLEAN
    /\ pc = "start"
    /\ exc = NoExc /\ orig_exc = NoExc /\ failed_stage = "none"
    /\ spawned = <<>> /\ written = {} /\ cleaned = FALSE
    /\ prev_gen = {}
    /\ runs = 1
    /\ rm_fail \in SUBSET GarbageCandidates
    /\ log = <<>>
    /\ MgIdle

SpecClean == CleanInit /\ [][Clean_run]_vars

(* ------------------------------- claims ------------------------------- *)
FailedTool ==
    /\ cmd = "build" /\ pc = "raised" /\ spawned # <<>>
    /\ Last(spawned).prog \in {"javac", "jar"}
    /\ Last(spawned).ret # 0

\* C1: when javac or jar exits non-zero, run still removes build_temp and
\* the caller gets a DistutilsSetupError whose message ends with the command
\* line that was executed; jar is never started after a failed javac.
C1_ToolFailureCleansUpAndNamesCommand ==
    /\ FailedTool =>
          /\ cleaned
          /\ ~exists(fs, build_temp)
          /\ exc.type = "DistutilsSetupError"
          /\ Len(exc.msg) > 1
          /\ Tail(exc.msg) = Last(spawned).cmd
    /\ \A i \in 1..Len(spawned) :
          (spawned[i].prog = "javac" /\ spawned[i].ret # 0) =>
             \A j \in (i + 1)..Len(spawned) : spawned[j].prog # "jar"

C1_Witness ==
    /\ FailedTool
    /\ Last(spawned).prog = "javac"
    /\ cleaned

ClaimedStages ==
    {"write_config", "write_version", "build_sercore_extension",
     "build_hdfscore_native_impl", "build_run", "create_tmp", "build_java"}

\* C2 as stated: whichever stage of run fails, clean_up is executed before
\* the failure reaches the caller.
C2_EveryStageFailureCleansUp ==
    (cmd = "build" /\ pc = "raised" /\ failed_stage \in ClaimedStages)
        => cleaned

\* C2 amended: a failure of workspace creation or of the JVM-component build
\* (the body of the try block) is followed by clean_up before it reaches the
\* caller; a failure of an earlier stage reaches the caller without clean_up.
C2_TryBodyFailureCleansUp ==
    (cmd = "build" /\ pc = "raised") =>
        /\ failed_stage \in {"create_tmp", "build_java"} => cleaned
        /\ failed_stage \in ClaimedStages \ {"create_tmp", "build_java"}
              => ~cleaned

C2_Witness ==
    /\ cmd = "build" /\ pc = "raised"
    /\ failed_stage = "build_java" /\ cleaned

\* C3: clean_up never raises, so the failure the caller sees is the one the
\* stage raised.
C3_CleanupNeverRaises ==
    (cmd = "build" /\ pc = "raised") => exc = orig_exc

\* C4: with an unsupported hdfs_core_impl the build fails in
\* finalize_options with an option error; no file is written, no Extension
\* is registered and no external process is started.
C4_UnsupportedImplFailsBeforeAnyEffect ==
    (cmd = "build" /\ hdfs_core_impl \notin SUPPORTED /\ pc # "start") =>
        /\ pc = "raised"
        /\ failed_stage = "finalize_options"
        /\ exc.type = "DistutilsOptionError"
        /\ written = {}
        /\ spawned = <<>>
        /\ EXTENSION_MODULES = <<>>
        /\ ~cleaned

C4_Witness ==
    /\ cmd = "build" /\ hdfs_core_impl \notin SUPPORTED
    /\ pc = "raised" /\ exc.type = "DistutilsOptionError"

MgStale ==
    \/ ~exists(mg_stat, mg_target)
    \/ \E i \in 1..Len(mg_prereqs) : ~exists(mg_stat, mg_prereqs[i])
    \/ \E i \in 1..Len(mg_prereqs) :
          mg_stat[mg_prereqs[i]].mtime > mg_stat[mg_target].mtime

\* C5: must_generate(T, P) is true iff T is missing, some p in P is missing
\* or some p in P is strictly newer than T, false otherwise, for every P
\* (the empty one included), and it never fails.
C5_MustGenerateIffStale ==
    mg_ret # "idle" => mg_ret = (IF MgStale THEN "True" ELSE "False")

\* C6: the registry never holds two entries with the same module name.
C6_RegistryHasNoDuplicateNames ==
    \A i, j \in 1..Len(EXTENSION_MODULES) :
        i # j => EXTENSION_MODULES[i].name # EXTENSION_MODULES[j].name

LibhdfsNames(e) ==
    {Last(e.sources[k]) : k \in {n \in 1..Len(e.sources) :
                                   IsPrefix(<<"src", "libhdfs">>, e.sources[n])}}

MacroNames(e) == {e.define_macros[k].name : k \in 1..Len(e.define_macros)}

\* C7: the native HDFS Extension is the legacy one (hdfs.c, hdfsJniHelper.c,
\* HADOOP_LIBHDFS_V1=1) exactly when the major version is <= 1 and the V2 one
\* (hdfs.c, jni_helper.c, exception.c, native_mini_dfs.c, HADOOP_LIBHDFS_V2=1)
\* exactly when it is >= 2; neither case has the other's files or macro.
C7_NativeSourcesPartitionByMajor ==
    \A i \in 1..Len(EXTENSION_MODULES) :
        LET e == EXTENSION_MODULES[i]
            major == HADOOP_VERSION_INFO[1]
        IN e.name = "native_core_hdfs" =>
            /\ \A k \in 1..Len(e.define_macros) : e.define_macros[k].value = 1
            /\ \/ /\ major <= 1
                  /\ LibhdfsNames(e) = {"hdfs.c", "hdfsJniHelper.c"}
                  /\ MacroNames(e) = {"HADOOP_LIBHDFS_V1"}
               \/ /\ major >= 2
                  /\ LibhdfsNames(e) = {"hdfs.c", "jni_helper.c",
                                        "exception.c", "native_mini_dfs.c"}
                  /\ MacroNames(e) = {"HADOOP_LIBHDFS_V2"}

C7_Witness ==
    /\ HADOOP_VERSION_INFO[1] = 1
    /\ \E i \in 1..Len(EXTENSION_MODULES) :
          EXTENSION_MODULES[i].name = "native_core_hdfs"

HasMapreducePipes(command) ==
    \E k \in 1..Len(command) : command[k] = "mapreduce"

\* C8 as stated: the compiled source list has the mapreduce/pipes directory
\* exactly when the major version is >= 2.
C8_ExtraSourcesIffMajorAtLeast2 ==
    \A i \in 1..Len(spawned) :
        spawned[i].prog = "javac" =>
            (HasMapreducePipes(spawned[i].cmd) <=> HADOOP_VERSION_INFO[1] >= 2)

\* C8 amended: the compiled source list has the mapreduce/pipes directory
\* exactly when the major version is > 2, or is 2 with a minor version >= 3
\* (.main >= (2, 2, 0) for a two-component .main): 2.0.x, 2.1.x and 2.2.x are
\* left out although the native extension takes its V2 sources for them.
C8_ExtraSourcesIffMainAbove22 ==
    \A i \in 1..Len(spawned) :
        spawned[i].prog = "javac" =>
            (HasMapreducePipes(spawned[i].cmd) <=>
                \/ HADOOP_VERSION_INFO[1] > 2
                \/ HADOOP_VERSION_INFO[1] = 2 /\ HADOOP_VERSION_INFO[2] >= 3)

C8_Witness ==
    /\ HADOOP_VERSION_INFO[1] = 2 /\ HADOOP_VERSION_INFO[2] = 2
    /\ \E i \in 1..Len(spawned) :
          spawned[i].prog = "javac" /\ ~HasMapreducePipes(spawned[i].cmd)
    /\ \E i \in 1..Len(EXTENSION_MODULES) :
          "HADOOP_LIBHDFS_V2" \in MacroNames(EXTENSION_MODULES[i])

\* C9: an existing marker file keeps its content in every step; the only
\* step after which it is gone is Clean.run.
C9_MarkerNeverOverwritten ==
    [][exists(fs, MARKER) =>
         IF exists(fs', MARKER)
         THEN fs'[MARKER].data = fs[MARKER].data
         ELSE cmd = "clean" /\ pc = "start" /\ pc' = "done"]_vars

C9_Witness ==
    /\ exists(fs, MARKER)
    /\ fs[MARKER].data # <<HADOOP_HOME, "\n">>
    /\ CONFIG_PY \in written
    /\ MARKER \notin written

\* C10: when the generation phase completes again under the same Hadoop home
\* and implementation mode, with no prerequisite touched since it last
\* completed, every generated artifact has the content it had then.
C10_RegenerationKeepsContent ==
    (cmd = "build" /\ pc = "build_run") =>
        \A g \in prev_gen :
            (g.home = HADOOP_HOME /\ g.impl = hdfs_core_impl) =>
                Artifacts(fs, HADOOP_VERSION_INFO) = g.art

C10_Witness ==
    /\ cmd = "build" /\ pc = "build_run"
    /\ \E g \in prev_gen : g.home = HADOOP_HOME /\ g.impl = hdfs_core_impl
    /\ CONFIG_PY \in written
    /\ \E r \in Revs \ {git_head} :
          fs[VERSION_PY].data = version_text(VERSION_TEXT, <<r>>)

CleanStep == cmd = "clean" /\ pc = "start" /\ pc' # "start"

Logged(l) == {l[i] : i \in 1..Len(l)}

\* the paths Clean.run has to hand to rm_rf, read off the tree
CleanTargets(f) ==
    {MARKER, CONFIG_PY, VERSION_PY}
    \cup {p \in DOMAIN f : p = BUILD \/ p = SRC_PATCHED}
    \cup {p \in DOMAIN f : p \in {SRC_LINK, PATCH_LINK, SRC_PATCHED}
                            /\ f[p].kind = "link"}

\* C11: whatever targets are missing, already removed or refused by the OS,
\* Clean.run logs and attempts every target of its garbage list and ends
\* without an exception.
C11_CleanLoopIsBestEffort ==
    [][CleanStep =>
         /\ pc' = "done"
         /\ exc' = NoExc
         /\ Logged(log') = CleanTargets(fs)
         /\ \A p \in CleanTargets(fs) \ rm_fail :
               dry_run \/ ~exists(fs', p)]_vars

C11_Witness ==
    /\ cmd = "clean" /\ pc = "done" /\ ~dry_run
    /\ MARKER \in rm_fail /\ exists(fs, MARKER)
    /\ VERSION_PY \in Logged(log)
    /\ PATCH_LINK \in Logged(log) /\ ~exists(fs, PATCH_LINK)
    /\ \E i, j \in 1..Len(log) : i # j /\ log[i] = log[j]

Below(f, p) == {q \in DOMAIN f : IsPrefix(p, q)}

\* C12: rm_rf removes a symbolic link without touching what it points to,
\* removes a real directory with everything below it, and removes a plain
\* file.
C12_RemovalByKind ==
    [][(CleanStep /\ ~dry_run) =>
         \A p \in (CleanTargets(fs) \cap DOMAIN fs) \ rm_fail :
            /\ fs[p].kind = "link" =>
                  /\ ~exists(fs', p)
                  /\ \A q \in Below(fs, fs[p].data) :
                        exists(fs', q) /\ fs'[q] = fs[q]
            /\ fs[p].kind = "dir" => Below(fs', p) = {}
            /\ fs[p].kind = "file" => ~exists(fs', p)]_vars

C12_Witness ==
    /\ cmd = "clean" /\ pc = "done" /\ ~dry_run /\ rm_fail = {}
    /\ PATCH_LINK \in Logged(log) /\ ~exists(fs, PATCH_LINK)
    /\ SRC_LINK \in Logged(log) /\ ~exists(fs, SRC_LINK)
    /\ exists(fs, EXT_DIR \o <<"x.c">>) /\ exists(fs, EXT_FILE)
    /\ BUILD \in Logged(log) /\ Below(fs, BUILD) = {}
    /\ ~exists(fs, CONFIG_PY)

\* C19: with dry_run set, Clean.run logs every target and removes nothing.
C19_DryRunRemovesNothing ==
    [][(CleanStep /\ dry_run) =>
         /\ fs' = fs
         /\ Logged(log') = CleanTargets(fs)
         /\ pc' = "done"]_vars

C19_Witness ==
    /\ cmd = "clean" /\ pc = "done" /\ dry_run
    /\ {MARKER, BUILD, PATCH_LINK} \subseteq Logged(log)
    /\ exists(fs, MARKER) /\ exists(fs, build_temp) /\ exists(fs, PATCH_LINK)

\* C13: after Clean.run (no dry run, every removal succeeding) none of the
\* build's generated artifacts exists: marker, config.py, version.py, the
\* libhdfs config.h, the build directory, links under src/ and patches/.
C13_CleanRemovesEveryArtifact ==
    (cmd = "clean" /\ pc = "done" /\ ~dry_run) =>
        /\ \A p \in {MARKER, CONFIG_PY, VERSION_PY, BUILD,
                     config_fn(HADOOP_VERSION_INFO)} : ~exists(fs, p)
        /\ \A p \in DOMAIN fs : fs[p].kind # "link"

\* C14: no failure to obtain the git revision is fatal: write_version never
\* fails because of git, and after a failed git the version file is written
\* with the declared version and no revision part.
C14_GitFailureIsNotFatal ==
    /\ ~(cmd = "build" /\ pc = "raised" /\ failed_stage = "write_version"
         /\ exc = Exc("OSError", GIT_CMD))
    /\ (cmd = "build" /\ \E i \in 1..Len(spawned) :
                            spawned[i].prog = "git" /\ spawned[i].ret # 0) =>
          /\ VERSION_PY \in written
          /\ fs[VERSION_PY].data = version_text(VERSION_TEXT, <<>>)

AfterGeneration ==
    \/ pc \in {"build_run", "create_tmp", "build_java", "package", "sleep",
               "clean_up", "done"}
    \/ pc = "raised" /\ failed_stage \in {"build_run", "create_tmp", "build_java"}

RegistryNames == [i \in 1..Len(EXTENSION_MODULES) |-> EXTENSION_MODULES[i].name]

\* C15: from an empty registry one generation phase registers pydoop_sercore
\* in every mode and native_core_hdfs exactly in native mode: two specs in
\* native mode, one otherwise, the codec first.
C15_RegistryAfterOneGeneration ==
    /\ (cmd = "build" /\ AfterGeneration) =>
          RegistryNames = IF hdfs_core_impl = "native"
                          THEN <<"pydoop_sercore", "native_core_hdfs">>
                          ELSE <<"pydoop_sercore">>
    /\ (cmd = "build" /\ pc = "build_hdfscore_native_impl") =>
          RegistryNames = <<"pydoop_sercore">>

C15_Witness ==
    /\ cmd = "build" /\ pc = "done"
    /\ hdfs_core_impl = "native" /\ Len(EXTENSION_MODULES) = 2

StageOrder ==
    <<"start", "write_config", "write_version", "build_sercore_extension",
      "build_hdfscore_native_impl", "build_run", "create_tmp", "build_java",
      "package", "sleep", "clean_up", "done", "raised">>

Rank(p) == CHOOSE i \in 1..Len(StageOrder) : StageOrder[i] = p

SameRun == cmd = "build" /\ runs' = runs /\ pc' # pc

\* C16: a run moves through its stages in the fixed order and never back; as
\* long as nothing has failed it enters the next stage and skips none (the
\* native registration only in the other modes); once a stage has failed no
\* further stage starts; javac runs only with no failure behind it, jar only
\* after javac exited 0, and "Build finished" is reached only without a
\* failure and with both tools having exited 0.
C16_StagesInOrder ==
    [][SameRun =>
         /\ Rank(pc') > Rank(pc)
         /\ exc' = NoExc =>
               \/ Rank(pc') = Rank(pc) + 1
               \/ /\ pc = "build_sercore_extension" /\ pc' = "build_run"
                  /\ hdfs_core_impl # "native"
         /\ exc' # NoExc => pc' \in {"sleep", "clean_up", "raised"}
         /\ spawned' # spawned =>
               /\ Last(spawned').prog = "javac" =>
                     pc = "build_java" /\ exc = NoExc /\ failed_stage = "none"
               /\ Last(spawned').prog = "jar" =>
                     /\ pc = "package" /\ spawned # <<>>
                     /\ Last(spawned).prog = "javac" /\ Last(spawned).ret = 0
         /\ pc' = "done" =>
               /\ exc' = NoExc /\ failed_stage' = "none"
               /\ \E i, j \in 1..Len(spawned') :
                     /\ spawned'[i].prog = "javac" /\ spawned'[i].ret = 0
                     /\ spawned'[j].prog = "jar" /\ spawned'[j].ret = 0]_vars

C16_Witness ==
    /\ cmd = "build" /\ pc = "done" /\ runs = 2
    /\ Len(spawned) >= 2 /\ Last(spawned).prog = "jar"

\* C17: build_temp is removed only by clean_up, which is entered only from
\* the delay, and from the delay on no external process is started.
C17_RemovalAfterProcessesAndDelay ==
    [][(cmd = "build" /\ runs' = runs) =>
         /\ (cleaned' /\ ~cleaned) => pc = "clean_up"
         /\ (exists(fs, build_temp) /\ ~exists(fs', build_temp)) =>
               pc = "clean_up"
         /\ (pc' = "clean_up" /\ pc # "clean_up") => pc = "sleep"
         /\ (pc \in {"sleep", "clean_up", "done", "raised"} \/ cleaned) =>
               spawned' = spawned]_vars

C17_Witness ==
    /\ cmd = "build" /\ pc = "raised" /\ cleaned
    /\ ~exists(fs, build_temp)
    /\ spawned # <<>> /\ Last(spawned).prog = "jar" /\ Last(spawned).ret # 0

\* C18: clean_up leaves every path outside build_temp as it was; after a run
\* in which every stage succeeded nothing is left of build_temp, and
\* build_lib and the archive under build_lib/pydoop are still there.
C18_CleanupRemovesOnlyBuildTemp ==
    [][(cmd = "build" /\ pc = "clean_up" /\ pc' # pc) =>
         /\ \A p \in DOMAIN fs :
               ~IsPrefix(build_temp, p) => (exists(fs', p) /\ fs'[p] = fs[p])
         /\ pc' = "done" =>
               /\ Below(fs', build_temp) = {}
               /\ exists(fs', build_lib)
               /\ exists(fs', build_lib \o <<"pydoop">>
                              \o jar_name(HADOOP_VERSION_INFO))]_vars

C18_Witness ==
    /\ cmd = "build" /\ pc = "done" /\ cleaned
    /\ ~exists(fs, build_temp)
    /\ exists(fs, build_lib \o <<"pydoop">> \o jar_name(HADOOP_VERSION_INFO))

====
